---- MODULE Spec2Model ----
(***************************************************************************)
(* A model of langchain_mcts/core.py: the MCTSNode tree, the MCTS search   *)
(* engine (select, expand, simulate, backpropagate), rating extraction,    *)
(* and the entry points MCTS.search, MCTSAgent.search, mcts_search and     *)
(* monte_carlo_search_tool.                                                *)
(*                                                                         *)
(* Nodes live in an arena: nodes[n] is the n-th MCTSNode constructed, node *)
(* 1 is the root, and parent / children hold arena indices.  The question  *)
(* is shared by all nodes and never changes; it is left out of the record. *)
(* value and reward are kept in hundredths (0.87 is 87).                   *)
(***************************************************************************)
EXTENDS Integers, Sequences, FiniteSets

VARIABLES
    nodes,            \* arena of MCTSNode objects [answer, parent, children, visits, value]
    pc,               \* position of the running call
    entry,            \* the entry point the caller used
    hasModel,         \* whether a language model was handed in (model is not None)
    iterations,       \* MCTS.iterations
    i,                \* loop index of MCTS.search
    cur,              \* the local `node` of search / select / expand / backpropagate
    j,                \* loop index of MCTS.expand
    todo,             \* the length of expand's range, fixed when the loop starts
    child,            \* the local `child_node` of MCTS.expand
    critique,         \* the local `critique` of MCTS.expand
    rating_response,  \* the local `rating_response` of MCTS.rate_answer
    reward,           \* the local `reward` of MCTS.search (hundredths)
    result,           \* what the entry point gave its caller
    exc,              \* the exception raised in the current call, if any
    call,             \* "search": a search() call runs; "expand": a direct expand() call
    fresh,            \* TRUE until a second call is made on the same engine
    started,          \* loop bodies begun on this engine
    snap,             \* history: the arena at the start of the iteration / backpropagation
    prompt            \* the local `prompt` of the latest get_critique / improve_answer / rate_answer

vars == <<nodes, pc, entry, hasModel, iterations, i, cur, j, todo, child, critique,
          rating_response, reward, result, exc, call, fresh, started, snap, prompt>>

(***************************************************************************)
(* Program constants and model bounds                                      *)
(***************************************************************************)
MAX_CHILDREN == 3

\* The parent of the root: None.
None == 0

\* rate_answer caps a rating above 95 to 95.
RatingCap == 95

\* best_child's default exploration_weight, 1.41, in hundredths.
ExplorationWeight == 141

\* float('inf'), above every finite weight the model can produce.
Infinity == 2000000000

\* Total number of loop bodies begun on one engine, over all its search() calls.
MaxIter == 3

\* Longest rate-oracle response (in tokens) the rating extraction is run on.
MaxLen == 4

\* Largest visits count of a node handed to best_child on its own.
MaxVisits == 3

DEFAULT_SEED_ANSWERS == << <<"seed", 1>>, <<"seed", 2>>, <<"seed", 3>> >>

NoText == <<"none", 0>>

Range(s) == {s[k] : k \in 1..Len(s)}

(***************************************************************************)
(* MCTSNode                                                                *)
(***************************************************************************)
\* Mutant: the parent argument is dropped.
MCTSNodeNoParent(answer, parent) ==
    [answer |-> answer, parent |-> None, children |-> <<>>, visits |-> 0, value |-> 0]

MCTSNode(answer, parent) ==
    [answer |-> answer, parent |-> parent, children |-> <<>>, visits |-> 0, value |-> 0]

is_fully_expanded(ns, n) == Len(ns[n].children) >= MAX_CHILDREN

add_child(ns, n, c) == [ns EXCEPT ![n].children = Append(@, c)]

\* math.log(x) * 10^4, rounded, for the visit counts the bounds allow.
LnE4(x) ==
    CASE x = 1 -> 0      [] x = 2 -> 6931   [] x = 3 -> 10986  [] x = 4 -> 13863
      [] x = 5 -> 16094  [] x = 6 -> 17918  [] x = 7 -> 19459  [] x = 8 -> 20794
      [] x = 9 -> 21972  [] x = 10 -> 23026 [] x = 11 -> 23979 [] x = 12 -> 24849

RECURSIVE SqrtSearch(_, _, _)
SqrtSearch(x, lo, hi) ==
    IF lo >= hi THEN lo
    ELSE LET mid == (lo + hi + 1) \div 2
         IN  IF mid * mid <= x THEN SqrtSearch(x, mid, hi) ELSE SqrtSearch(x, lo, mid - 1)

\* floor(math.sqrt(x)) for 0 <= x < 46340^2.
Isqrt(x) == SqrtSearch(x, 0, 46339)

\* Mutant: an unvisited child weighs less than any visited one.
WeightVisitedFirst(ns, p, c, w) ==
    IF ns[c].visits = 0
    THEN 0 - 1
    ELSE (ns[c].value * 100) \div ns[c].visits
         + (w * Isqrt((2 * LnE4(ns[p].visits) * 10000) \div ns[c].visits)) \div 100

\* Mutant: an unvisited child weighs nothing.
WeightNoInfinity(ns, p, c, w) ==
    IF ns[c].visits = 0
    THEN 0
    ELSE (ns[c].value * 100) \div ns[c].visits
         + (w * Isqrt((2 * LnE4(ns[p].visits) * 10000) \div ns[c].visits)) \div 100

\* The UCB1 weight of child c of node p, scaled by 10^4: value and reward are
\* hundredths, so value * 100 / visits is the exploitation term, and
\* sqrt(2 * ln / visits) * 10^4 is the square root of 2 * (ln * 10^4) * 10^4 / visits.
\* Whenever two weights differ here, the floating-point weights differ the same
\* way; weights that are equal as real numbers are equal here, where IEEE
\* rounding of the sums may order them either way.
Weight(ns, p, c, w) ==
    IF ns[c].visits = 0
    THEN Infinity
    ELSE LET exploitation == (ns[c].value * 100) \div ns[c].visits
             exploration  == (w * Isqrt((2 * LnE4(ns[p].visits) * 10000) \div ns[c].visits)) \div 100
         IN  exploitation + exploration

\* np.argmax: the first index holding the maximum.
ArgMax(ws) ==
    CHOOSE k \in 1..Len(ws) :
        /\ \A m \in 1..Len(ws) : ws[m] <= ws[k]
        /\ \A m \in 1..(k - 1) : ws[m] < ws[k]

\* best_child raises: math.log(0) for a visited child of an unvisited node, or
\* np.argmax of an empty list.
BestChildRaises(ns, p) ==
    \/ ns[p].children = <<>>
    \/ ns[p].visits <= 0 /\ \E c \in Range(ns[p].children) : ns[c].visits # 0

\* Mutant: the first child, whatever the weights.
first_child(ns, p, w) == ns[p].children[1]

best_child(ns, p, w) ==
    LET choices_weights == [k \in 1..Len(ns[p].children) |-> Weight(ns, p, ns[p].children[k], w)]
    IN  ns[p].children[ArgMax(choices_weights)]

\* Mutant: the child with the highest value.
most_valued_child(ns, p) ==
    LET cs == ns[p].children
    IN  cs[CHOOSE k \in 1..Len(cs) :
              /\ \A m \in 1..Len(cs) : ns[cs[m]].value <= ns[cs[k]].value
              /\ \A m \in 1..(k - 1) : ns[cs[m]].value < ns[cs[k]].value]

\* max(children, key=visits): the first child holding the maximum.
most_visited_child(ns, p) ==
    LET cs == ns[p].children
    IN  cs[CHOOSE k \in 1..Len(cs) :
              /\ \A m \in 1..Len(cs) : ns[cs[m]].visits <= ns[cs[k]].visits
              /\ \A m \in 1..(k - 1) : ns[cs[m]].visits < ns[cs[k]].visits]

(***************************************************************************)
(* The oracle (self.llm.invoke) and rating extraction                      *)
(***************************************************************************)
\* A response text is a sequence of tokens: the label "Rating:", a white-space
\* character, a decimal digit, or any other text ("x").
Digits == {"0", "4", "7", "8", "9"}

Tokens == {"Rating:", " ", "x"} \cup Digits

DigitValue(d) ==
    CASE d = "0" -> 0 [] d = "4" -> 4 [] d = "7" -> 7 [] d = "8" -> 8 [] d = "9" -> 9

\* The position after the white space that starts at position p (\s*).
RECURSIVE SkipSpace(_, _)
SkipSpace(text, p) ==
    IF p <= Len(text) /\ text[p] = " " THEN SkipSpace(text, p + 1) ELSE p

\* int() of the longest run of digits that starts at position p (\d+), continuing
\* from the value acc of the digits read so far.
RECURSIVE ReadInt(_, _, _)
ReadInt(text, p, acc) ==
    IF p <= Len(text) /\ text[p] \in Digits
    THEN ReadInt(text, p + 1, acc * 10 + DigitValue(text[p]))
    ELSE acc

\* re.search(r'Rating:\s*(\d+)', text): the start positions at which the pattern
\* matches; re.search takes the leftmost.
MatchStarts(text) ==
    {p \in 1..Len(text) :
        /\ text[p] = "Rating:"
        /\ LET q == SkipSpace(text, p + 1) IN q <= Len(text) /\ text[q] \in Digits}

\* Mutant: no cap.
ExtractRatingNoCap(text) ==
    IF MatchStarts(text) # {}
    THEN LET p == CHOOSE m \in MatchStarts(text) : \A o \in MatchStarts(text) : m <= o
         IN  ReadInt(text, SkipSpace(text, p + 1), 0)
    ELSE 0

\* The rating rate_answer extracts from a response, in hundredths.
ExtractRating(text) ==
    IF MatchStarts(text) # {}
    THEN LET p      == CHOOSE m \in MatchStarts(text) : \A o \in MatchStarts(text) : m <= o
             rating == ReadInt(text, SkipSpace(text, p + 1), 0)
         IN  IF rating > RatingCap THEN RatingCap ELSE rating
    ELSE 0

\* The responses the rate oracle gives during a search.
RateResponses ==
    { <<"x", "Rating:", " ", "9", "9">>, <<"x">> }

\* The critiques the oracle gives.
CritiqueTexts == { <<"critique", 1>>, <<"critique", 2>> }

\* The improved answers the oracle gives for the draft of child c: a text of its
\* own for every call.
ImproveTexts(c, draft, crit) == { <<"improved", c>> }

\* What a failing self.llm.invoke raises.
OracleError(site) == <<IF hasModel THEN "OracleError" ELSE "AttributeError", site>>

NoExc == <<"none", "none">>

\* The prompts handed to self.llm.invoke: which template, and what fills it.
NoPrompt == [kind |-> "none", draft |-> NoText, critique |-> NoText]

CritiquePrompt(draft_answer) ==
    [kind |-> "critique", draft |-> draft_answer, critique |-> NoText]

ImprovePrompt(draft_answer, crit) ==
    [kind |-> "improve", draft |-> draft_answer, critique |-> crit]

RatePrompt(answer) == [kind |-> "rate", draft |-> answer, critique |-> NoText]

(***************************************************************************)
(* Entry points and exception propagation                                  *)
(***************************************************************************)
Entries == {"MCTS.search", "MCTSAgent.search", "mcts_search", "monte_carlo_search_tool"}

\* The frames on the stack while MCTS.search runs, outermost first.
CallStack(e) ==
    CASE e = "MCTS.search"             -> <<"MCTS.search">>
      [] e = "MCTSAgent.search"        -> <<"MCTSAgent.search", "MCTS.search">>
      [] e = "mcts_search"             -> <<"mcts_search", "MCTSAgent.search", "MCTS.search">>
      [] e = "monte_carlo_search_tool" -> <<"monte_carlo_search_tool", "MCTS.search">>
      [] e = "MCTS.expand"             -> <<"MCTS.expand">>

\* Mutant: no frame has a handler.
CatchesNothing(frame) == FALSE

\* Mutant: MCTSAgent.search has a handler too.
CatchesInAgent(frame) == frame \in {"monte_carlo_search_tool", "MCTSAgent.search"}

\* The frames with an `except Exception` around the call below them.
Catches(frame) == frame = "monte_carlo_search_tool"

NoResult == [kind |-> "none", val |-> NoText]

Returned(v) == [kind |-> "returned", val |-> v]

ErrorString == <<"Error during MCTS search", 0>>

\* What the caller of entry point e gets when exception x is raised below it.
Escape(e, x) ==
    IF \E k \in 1..Len(CallStack(e)) : Catches(CallStack(e)[k])
    THEN Returned(ErrorString)
    ELSE [kind |-> "raised", val |-> <<x[1], 0>>]

(***************************************************************************)
(* Initial state: an engine has been constructed (MCTS.__init__) and the   *)
(* caller is about to run it through one of the entry points.              *)
(***************************************************************************)
Root == 1

Init ==
    /\ \E k \in 1..Len(DEFAULT_SEED_ANSWERS) :
           nodes = << MCTSNode(DEFAULT_SEED_ANSWERS[k], None) >>
    /\ entry \in Entries
    /\ hasModel \in BOOLEAN
    /\ iterations \in 0..MaxIter
    /\ pc = "start"
    /\ i = 0
    /\ cur = None
    /\ j = 0
    /\ todo = 0
    /\ child = None
    /\ critique = NoText
    /\ rating_response = <<>>
    /\ reward = 0
    /\ result = NoResult
    /\ exc = NoExc
    /\ call = "search"
    /\ fresh = TRUE
    /\ started = 0
    /\ snap = [nodes |-> <<>>, node |-> None]
    /\ prompt = NoPrompt

\* An exception x leaves the running call.
Raise(x) ==
    /\ exc' = x
    /\ result' = Escape(IF call = "search" THEN entry ELSE "MCTS.expand", x)
    /\ pc' = "end"

(***************************************************************************)
(* MCTSAgent.search / MCTS.search                                          *)
(***************************************************************************)
\* MCTSAgent.search without a model raises before the engine is built.
ConfigError ==
    /\ pc = "start"
    /\ entry \in {"MCTSAgent.search", "mcts_search"}
    /\ ~hasModel
    /\ Raise(<<"ValueError", "config">>)
    /\ UNCHANGED <<nodes, entry, hasModel, iterations, i, cur, j, todo, child, critique,
                   rating_response, reward, call, fresh, started, snap, prompt>>

StartSearch ==
    /\ pc = "start"
    /\ ~(entry \in {"MCTSAgent.search", "mcts_search"} /\ ~hasModel)
    /\ i' = 0
    /\ pc' = "loop"
    /\ UNCHANGED <<nodes, entry, hasModel, iterations, cur, j, todo, child, critique,
                   rating_response, reward, result, exc, call, fresh, started, snap, prompt>>

\* for i in range(self.iterations): the next iteration starts at the root.
LoopIterate ==
    /\ pc = "loop"
    /\ i < iterations
    /\ cur' = Root
    /\ pc' = "select"
    /\ started' = started + 1
    /\ snap' = [nodes |-> nodes, node |-> None]
    /\ rating_response' = <<>>
    /\ UNCHANGED <<nodes, entry, hasModel, iterations, i, j, todo, child, critique,
                   reward, result, exc, call, fresh, prompt>>

LoopExit ==
    /\ pc = "loop"
    /\ i >= iterations
    /\ pc' = "finish"
    /\ UNCHANGED <<nodes, entry, hasModel, iterations, i, cur, j, todo, child, critique,
                   rating_response, reward, result, exc, call, fresh, started, snap, prompt>>

\* The result: root.most_visited_child().answer; max() of no children raises.
FinishReturn ==
    /\ pc = "finish"
    /\ nodes[Root].children # <<>>
    /\ result' = Returned(nodes[most_visited_child(nodes, Root)].answer)
    /\ pc' = "end"
    /\ UNCHANGED <<nodes, entry, hasModel, iterations, i, cur, j, todo, child, critique,
                   rating_response, reward, exc, call, fresh, started, snap, prompt>>

FinishRaise ==
    /\ pc = "finish"
    /\ nodes[Root].children = <<>>
    /\ Raise(<<"ValueError", "most_visited_child">>)
    /\ UNCHANGED <<nodes, entry, hasModel, iterations, i, cur, j, todo, child, critique,
                   rating_response, reward, call, fresh, started, snap, prompt>>

(***************************************************************************)
(* MCTS.select                                                             *)
(***************************************************************************)
\* Mutant: select returns the node it was given.
SelectNever(ns, n) == FALSE

\* Mutant: while node.children, whether or not the node is fully expanded.
SelectWhileChildren(ns, n) == ns[n].children # <<>>

SelectContinues(ns, n) == is_fully_expanded(ns, n) /\ ns[n].children # <<>>

SelectDescend ==
    /\ pc = "select"
    /\ SelectContinues(nodes, cur)
    /\ IF BestChildRaises(nodes, cur)
       THEN /\ Raise(<<"ValueError", "best_child">>)
            /\ cur' = cur
       ELSE /\ cur' = best_child(nodes, cur, ExplorationWeight)
            /\ UNCHANGED <<pc, result, exc>>
    /\ UNCHANGED <<nodes, entry, hasModel, iterations, i, j, todo, child, critique,
                   rating_response, reward, call, fresh, started, snap, prompt>>

SelectStop ==
    /\ pc = "select"
    /\ ~SelectContinues(nodes, cur)
    /\ pc' = "selected"
    /\ UNCHANGED <<nodes, entry, hasModel, iterations, i, cur, j, todo, child, critique,
                   rating_response, reward, result, exc, call, fresh, started, snap, prompt>>

(***************************************************************************)
(* MCTS.expand                                                             *)
(***************************************************************************)
\* Mutant: range(MAX_CHILDREN), whatever the node has.
ExpandCountFixed(ns, n) == MAX_CHILDREN

\* len(range(MAX_CHILDREN - len(node.children)))
ExpandCount(ns, n) ==
    IF MAX_CHILDREN - Len(ns[n].children) > 0 THEN MAX_CHILDREN - Len(ns[n].children) ELSE 0

\* Mutant: the selected node is simulated as it is, never expanded.
AfterSelectSkipsExpand ==
    /\ pc = "selected"
    /\ pc' = "simulate"
    /\ UNCHANGED <<j, todo>>
    /\ UNCHANGED <<nodes, entry, hasModel, iterations, i, cur, child, critique,
                   rating_response, reward, result, exc, call, fresh, started, snap, prompt>>

\* if not node.is_fully_expanded(): node = self.expand(node)
AfterSelect ==
    /\ pc = "selected"
    /\ IF ~is_fully_expanded(nodes, cur)
       THEN /\ pc' = "expand"
            /\ j' = 0
            /\ todo' = ExpandCount(nodes, cur)
       ELSE /\ pc' = "simulate"
            /\ UNCHANGED <<j, todo>>
    /\ UNCHANGED <<nodes, entry, hasModel, iterations, i, cur, child, critique,
                   rating_response, reward, result, exc, call, fresh, started, snap, prompt>>

\* child_node = MCTSNode(self.question, node.answer, parent=node); node.add_child(child_node)
ExpandChild ==
    /\ pc = "expand"
    /\ j < todo
    /\ child' = Len(nodes) + 1
    /\ nodes' = add_child(Append(nodes, MCTSNode(nodes[cur].answer, cur)), cur, Len(nodes) + 1)
    /\ pc' = "critique"
    /\ UNCHANGED <<entry, hasModel, iterations, i, cur, j, todo, critique,
                   rating_response, reward, result, exc, call, fresh, started, snap, prompt>>

GetCritique ==
    /\ pc = "critique"
    /\ hasModel
    /\ critique' \in CritiqueTexts
    /\ pc' = "improve"
    /\ prompt' = CritiquePrompt(nodes[child].answer)
    /\ UNCHANGED <<nodes, entry, hasModel, iterations, i, cur, j, todo, child,
                   rating_response, reward, result, exc, call, fresh, started, snap>>

GetCritiqueFails ==
    /\ pc = "critique"
    /\ Raise(OracleError("critique"))
    /\ prompt' = CritiquePrompt(nodes[child].answer)
    /\ UNCHANGED <<nodes, entry, hasModel, iterations, i, cur, j, todo, child, critique,
                   rating_response, reward, call, fresh, started, snap>>

\* Mutant: the improved answer is obtained and dropped; the child keeps its draft.
ImproveAnswerDropped ==
    /\ pc = "improve"
    /\ hasModel
    /\ nodes' = nodes
    /\ j' = j + 1
    /\ pc' = "expand"
    /\ prompt' = ImprovePrompt(nodes[child].answer, critique)
    /\ UNCHANGED <<entry, hasModel, iterations, i, cur, todo, child, critique,
                   rating_response, reward, result, exc, call, fresh, started, snap>>

\* improved_answer = self.improve_answer(...); child_node.answer = improved_answer
ImproveAnswer ==
    /\ pc = "improve"
    /\ hasModel
    /\ \E improved_answer \in ImproveTexts(child, nodes[child].answer, critique) :
           nodes' = [nodes EXCEPT ![child].answer = improved_answer]
    /\ j' = j + 1
    /\ pc' = "expand"
    /\ prompt' = ImprovePrompt(nodes[child].answer, critique)
    /\ UNCHANGED <<entry, hasModel, iterations, i, cur, todo, child, critique,
                   rating_response, reward, result, exc, call, fresh, started, snap>>

ImproveAnswerFails ==
    /\ pc = "improve"
    /\ Raise(OracleError("improve"))
    /\ prompt' = ImprovePrompt(nodes[child].answer, critique)
    /\ UNCHANGED <<nodes, entry, hasModel, iterations, i, cur, j, todo, child, critique,
                   rating_response, reward, call, fresh, started, snap>>

\* Mutant: expand returns the node it expanded, not one of its children.
ExpandReturnsNode ==
    /\ pc = "expand"
    /\ j >= todo
    /\ cur' = cur
    /\ IF call = "search"
       THEN pc' = "simulate" /\ UNCHANGED result
       ELSE pc' = "end" /\ result' = Returned(<<"node", cur>>)
    /\ j' = 0
    /\ todo' = 0
    /\ child' = None
    /\ critique' = NoText
    /\ UNCHANGED <<nodes, entry, hasModel, iterations, i,
                   rating_response, reward, exc, call, fresh, started, snap, prompt>>

\* return random.choice(node.children): to the search loop, or to a direct caller.
ExpandReturn ==
    /\ pc = "expand"
    /\ j >= todo
    /\ \E c \in Range(nodes[cur].children) :
           /\ cur' = c
           /\ IF call = "search"
              THEN pc' = "simulate" /\ UNCHANGED result
              ELSE pc' = "end" /\ result' = Returned(<<"node", c>>)
    /\ j' = 0
    /\ todo' = 0
    /\ child' = None
    /\ critique' = NoText
    /\ UNCHANGED <<nodes, entry, hasModel, iterations, i,
                   rating_response, reward, exc, call, fresh, started, snap, prompt>>

(***************************************************************************)
(* MCTS.simulate / MCTS.rate_answer                                        *)
(***************************************************************************)
\* The oracle answers; the rating is extracted and backpropagation starts.
RateAnswer ==
    /\ pc = "simulate"
    /\ hasModel
    /\ \E response \in RateResponses :
           /\ rating_response' = response
           /\ reward' = ExtractRating(response)
    /\ snap' = [nodes |-> nodes, node |-> cur]
    /\ pc' = "bp_visits"
    /\ prompt' = RatePrompt(nodes[cur].answer)
    /\ UNCHANGED <<nodes, entry, hasModel, iterations, i, cur, j, todo, child, critique,
                   result, exc, call, fresh, started>>

\* self.llm.invoke is called before the try block of rate_answer: its failure
\* leaves rate_answer, simulate and search.
RateAnswerFails ==
    /\ pc = "simulate"
    /\ Raise(OracleError("rate"))
    /\ prompt' = RatePrompt(nodes[cur].answer)
    /\ UNCHANGED <<nodes, entry, hasModel, iterations, i, cur, j, todo, child, critique,
                   rating_response, reward, call, fresh, started, snap>>

(***************************************************************************)
(* MCTS.backpropagate                                                      *)
(***************************************************************************)
\* Mutant: the walk stops below the root (while node.parent is not None).
BackpropStopsBelowRoot(ns, n) == n # None /\ ns[n].parent # None

\* while node is not None
BackpropContinues(ns, n) == n # None

\* Mutant: backpropagate adds the reward and counts no visit.
AddNoVisit(ns, n, r) == ns

\* Mutant: the two updates in the other order, the value first.
AddRewardFirst(ns, n, r) == [ns EXCEPT ![n].value = @ + r]

\* node.visits += 1
AddVisit(ns, n, r) == [ns EXCEPT ![n].visits = @ + 1]

\* Mutant: the reward is added twice.
AddRewardTwice(ns, n, r) == [ns EXCEPT ![n].value = @ + 2 * r]

\* node.value += reward
AddReward(ns, n, r) == [ns EXCEPT ![n].value = @ + r]

BackpropVisits ==
    /\ pc = "bp_visits"
    /\ BackpropContinues(nodes, cur)
    /\ nodes' = AddVisit(nodes, cur, reward)
    /\ pc' = "bp_value"
    /\ UNCHANGED <<entry, hasModel, iterations, i, cur, j, todo, child, critique,
                   rating_response, reward, result, exc, call, fresh, started, snap, prompt>>

BackpropValue ==
    /\ pc = "bp_value"
    /\ nodes' = AddReward(nodes, cur, reward)
    /\ cur' = nodes[cur].parent
    /\ pc' = "bp_visits"
    /\ UNCHANGED <<entry, hasModel, iterations, i, j, todo, child, critique,
                   rating_response, reward, result, exc, call, fresh, started, snap, prompt>>

\* backpropagate returns and the loop body ends.
BackpropReturn ==
    /\ pc = "bp_visits"
    /\ ~BackpropContinues(nodes, cur)
    /\ i' = i + 1
    /\ pc' = "loop"
    /\ UNCHANGED <<nodes, entry, hasModel, iterations, cur, j, todo, child, critique,
                   rating_response, reward, result, exc, call, fresh, started, snap, prompt>>

(***************************************************************************)
(* Further calls on the same engine, by a caller that holds the MCTS       *)
(* object: search() again, or expand(node) on one of its full nodes.       *)
(***************************************************************************)
SearchAgain ==
    /\ pc = "end"
    /\ entry = "MCTS.search"
    /\ started + iterations <= MaxIter
    /\ pc' = "start"
    /\ call' = "search"
    /\ fresh' = FALSE
    /\ result' = NoResult
    /\ exc' = NoExc
    /\ cur' = None
    /\ j' = 0
    /\ todo' = 0
    /\ child' = None
    /\ critique' = NoText
    /\ rating_response' = <<>>
    /\ reward' = 0
    /\ snap' = [nodes |-> <<>>, node |-> None]
    /\ prompt' = NoPrompt
    /\ UNCHANGED <<nodes, entry, hasModel, iterations, i, started>>

\* expand(node) called by hand on a node that is already fully expanded, as the
\* caller's first call after the first search().
DirectExpand ==
    /\ pc = "end"
    /\ entry = "MCTS.search"
    /\ fresh
    /\ \E n \in 1..Len(nodes) :
           /\ is_fully_expanded(nodes, n)
           /\ cur' = n
           /\ todo' = ExpandCount(nodes, n)
    /\ pc' = "expand"
    /\ call' = "expand"
    /\ fresh' = FALSE
    /\ result' = NoResult
    /\ exc' = NoExc
    /\ j' = 0
    /\ child' = None
    /\ critique' = NoText
    /\ rating_response' = <<>>
    /\ reward' = 0
    /\ snap' = [nodes |-> nodes, node |-> None]
    /\ prompt' = NoPrompt
    /\ UNCHANGED <<nodes, entry, hasModel, iterations, i, started>>

Next ==
    \/ ConfigError
    \/ StartSearch
    \/ LoopIterate
    \/ LoopExit
    \/ FinishReturn
    \/ FinishRaise
    \/ SelectDescend
    \/ SelectStop
    \/ AfterSelect
    \/ ExpandChild
    \/ GetCritique
    \/ GetCritiqueFails
    \/ ImproveAnswer
    \/ ImproveAnswerFails
    \/ ExpandReturn
    \/ RateAnswer
    \/ RateAnswerFails
    \/ BackpropVisits
    \/ BackpropValue
    \/ BackpropReturn
    \/ SearchAgain
    \/ DirectExpand

Spec == Init /\ [][Next]_vars

(***************************************************************************)
(* rate_answer's extraction on its own: every response of at most MaxLen   *)
(* tokens is handed to lines 198-213.                                      *)
(***************************************************************************)
Texts == UNION {[1..n -> Tokens] : n \in 0..MaxLen}

InitRate ==
    /\ nodes = << MCTSNode(DEFAULT_SEED_ANSWERS[1], None) >>
    /\ entry = "MCTS.search"
    /\ hasModel = TRUE
    /\ iterations = 1
    /\ pc = "rate_extract"
    /\ i = 0
    /\ cur = Root
    /\ j = 0
    /\ todo = 0
    /\ child = None
    /\ critique = NoText
    /\ rating_response \in Texts
    /\ reward = 0
    /\ result = NoResult
    /\ exc = NoExc
    /\ call = "search"
    /\ fresh = TRUE
    /\ started = 1
    /\ snap = [nodes |-> <<>>, node |-> None]
    /\ prompt = NoPrompt

ExtractAndReturn ==
    /\ pc = "rate_extract"
    /\ reward' = ExtractRating(rating_response)
    /\ pc' = "rate_return"
    /\ UNCHANGED <<nodes, entry, hasModel, iterations, i, cur, j, todo, child, critique,
                   rating_response, result, exc, call, fresh, started, snap, prompt>>

NextRate == ExtractAndReturn

SpecRate == InitRate /\ [][NextRate]_vars

(***************************************************************************)
(* best_child on its own: a node with visits in 1..MaxVisits and one to    *)
(* MAX_CHILDREN children, each with visits in 0..MaxVisits and a value     *)
(* that many rewards add up to.                                            *)
(***************************************************************************)
Rewards == {ExtractRating(r) : r \in RateResponses} \cup {40}

RECURSIVE SumsOf(_)
SumsOf(n) == IF n = 0 THEN {0} ELSE {v + r : v \in SumsOf(n - 1), r \in Rewards}

Stats == {st \in [visits : 0..MaxVisits, value : 0..(RatingCap * MaxVisits)] :
              st.value \in SumsOf(st.visits)}

InitBest ==
    /\ \E k \in 1..MAX_CHILDREN, v \in 1..MaxVisits, st \in [1..MAX_CHILDREN -> Stats] :
           nodes = << [MCTSNode(DEFAULT_SEED_ANSWERS[1], None) EXCEPT
                          !.children = [c \in 1..k |-> c + 1], !.visits = v] >>
                   \o [c \in 1..k |->
                          [MCTSNode(<<"improved", c + 1>>, Root) EXCEPT
                              !.visits = st[c].visits, !.value = st[c].value]]
    /\ entry = "MCTS.search"
    /\ hasModel = TRUE
    /\ iterations = 1
    /\ pc = "best_child"
    /\ i = 0
    /\ cur = Root
    /\ j = 0
    /\ todo = 0
    /\ child = None
    /\ critique = NoText
    /\ rating_response = <<>>
    /\ reward = 0
    /\ result = NoResult
    /\ exc = NoExc
    /\ call = "search"
    /\ fresh = TRUE
    /\ started = 1
    /\ snap = [nodes |-> <<>>, node |-> None]
    /\ prompt = NoPrompt

\* Two calls of Root.best_child() in a row: cur holds the first result, child
\* the second.
BestChildCall ==
    /\ pc = "best_child"
    /\ cur' = best_child(nodes, Root, ExplorationWeight)
    /\ pc' = "best_child_again"
    /\ UNCHANGED <<nodes, entry, hasModel, iterations, i, j, todo, child, critique,
                   rating_response, reward, result, exc, call, fresh, started, snap, prompt>>

BestChildAgain ==
    /\ pc = "best_child_again"
    /\ child' = best_child(nodes, Root, ExplorationWeight)
    /\ pc' = "best_child_done"
    /\ UNCHANGED <<nodes, entry, hasModel, iterations, i, cur, j, todo, critique,
                   rating_response, reward, result, exc, call, fresh, started, snap, prompt>>

NextBest == BestChildCall \/ BestChildAgain

SpecBest == InitBest /\ [][NextBest]_vars

(***************************************************************************)
(* Runs in which no oracle call fails: one search() on a newly built       *)
(* engine, entered through MCTS.search, with a budget of up to MaxClean    *)
(* iterations.                                                             *)
(***************************************************************************)
MaxClean == 4

\* The state after MCTS(question, seed_answers, iterations = n, llm = a model).
FreshEngine(n) ==
    /\ \E k \in 1..Len(DEFAULT_SEED_ANSWERS) :
           nodes = << MCTSNode(DEFAULT_SEED_ANSWERS[k], None) >>
    /\ entry = "MCTS.search"
    /\ hasModel = TRUE
    /\ iterations = n
    /\ pc = "start"
    /\ i = 0
    /\ cur = None
    /\ j = 0
    /\ todo = 0
    /\ child = None
    /\ critique = NoText
    /\ rating_response = <<>>
    /\ reward = 0
    /\ result = NoResult
    /\ exc = NoExc
    /\ call = "search"
    /\ fresh = TRUE
    /\ started = 0
    /\ snap = [nodes |-> <<>>, node |-> None]
    /\ prompt = NoPrompt

InitClean == \E n \in 0..MaxClean : FreshEngine(n)

NextClean ==
    \/ StartSearch
    \/ LoopIterate
    \/ LoopExit
    \/ FinishReturn
    \/ FinishRaise
    \/ SelectDescend
    \/ SelectStop
    \/ AfterSelect
    \/ ExpandChild
    \/ GetCritique
    \/ ImproveAnswer
    \/ ExpandReturn
    \/ RateAnswer
    \/ BackpropVisits
    \/ BackpropValue
    \/ BackpropReturn

SpecClean == InitClean /\ [][NextClean]_vars

\* Runs of the same kind with a budget of up to MaxFair iterations, of a
\* program that keeps running: search() is one thread of straight-line code, so
\* a step that can be taken is taken.
MaxFair == 2

InitFair == \E n \in 0..MaxFair : FreshEngine(n)

SpecCleanFair == InitFair /\ [][NextClean]_vars /\ WF_vars(NextClean)

(***************************************************************************)
(* Runs against a stub oracle that never fails and rates every answer      *)
(* "Rating: 80".                                                           *)
(***************************************************************************)
StubRating == <<"Rating:", " ", "8", "0">>

RateAnswerStub ==
    /\ pc = "simulate"
    /\ hasModel
    /\ rating_response' = StubRating
    /\ reward' = ExtractRating(StubRating)
    /\ snap' = [nodes |-> nodes, node |-> cur]
    /\ pc' = "bp_visits"
    /\ prompt' = RatePrompt(nodes[cur].answer)
    /\ UNCHANGED <<nodes, entry, hasModel, iterations, i, cur, j, todo, child, critique,
                   result, exc, call, fresh, started>>

InitStub == \E n \in 0..MaxIter : FreshEngine(n)

NextStub ==
    \/ StartSearch
    \/ LoopIterate
    \/ LoopExit
    \/ FinishReturn
    \/ FinishRaise
    \/ SelectDescend
    \/ SelectStop
    \/ AfterSelect
    \/ ExpandChild
    \/ GetCritique
    \/ ImproveAnswer
    \/ ExpandReturn
    \/ RateAnswerStub
    \/ BackpropVisits
    \/ BackpropValue
    \/ BackpropReturn

SpecStub == InitStub /\ [][NextStub]_vars

(***************************************************************************)
(* Properties                                                              *)
(***************************************************************************)
NodeIds == 1..Len(nodes)

\* C1: when the rate oracle call raises during Simulate, the failure is caught
\* inside the engine (reward 0.0, backpropagation, the search goes on): no call
\* ever ends by a rate-oracle failure.
C1_RateFailureIsCaught == ~(pc = "end" /\ exc[2] = "rate")

\* The places of a "Rating: <integer>" field in a text: the label at p, white
\* space up to q, and digits from q to e, where the run of digits ends.
C2_Fields(text) ==
    {f \in (1..Len(text)) \X (1..Len(text)) \X (1..Len(text)) :
        /\ f[1] < f[2] /\ f[2] <= f[3]
        /\ text[f[1]] = "Rating:"
        /\ \A k \in (f[1] + 1)..(f[2] - 1) : text[k] = " "
        /\ \A k \in f[2]..f[3] : text[k] \in Digits
        /\ f[3] = Len(text) \/ text[f[3] + 1] \notin Digits}

RECURSIVE C2_Pow10(_)
C2_Pow10(n) == IF n = 0 THEN 1 ELSE 10 * C2_Pow10(n - 1)

RECURSIVE C2_Sum(_, _, _)
C2_Sum(text, q, e) ==
    IF q > e THEN 0 ELSE DigitValue(text[q]) * C2_Pow10(e - q) + C2_Sum(text, q + 1, e)

\* C2: rate_answer returns min(r, 95)/100 where r is the integer of the first
\* "Rating: <integer>" field of the response, and 0.0 when the response holds no
\* such field; every reward lies in [0, 0.95].
C2_RatingExtraction ==
    pc = "rate_return" =>
        /\ exc = NoExc
        /\ reward >= 0 /\ reward <= 95
        /\ C2_Fields(rating_response) = {} => reward = 0
        /\ \A f \in C2_Fields(rating_response) :
               (\A g \in C2_Fields(rating_response) : f[1] <= g[1]) =>
                   LET r == C2_Sum(rating_response, f[2], f[3])
                   IN  reward = IF r < 95 THEN r ELSE 95

C2_Witness ==
    /\ pc = "rate_return"
    /\ rating_response = <<"Rating:", " ", "9", "9">>
    /\ reward = 95

\* C3: a search of at least one iteration that no oracle failure ends returns the
\* answer of the first child of the root, in child order, whose visits count is
\* the maximum over the root's children.
C3_ReturnsMostVisited ==
    (pc = "end" /\ call = "search" /\ iterations >= 1 /\ exc = NoExc) =>
        /\ result.kind = "returned"
        /\ LET cs == nodes[Root].children
           IN  \E k \in 1..Len(cs) :
                   /\ result.val = nodes[cs[k]].answer
                   /\ \A m \in 1..Len(cs) : nodes[cs[m]].visits <= nodes[cs[k]].visits
                   /\ \A m \in 1..(k - 1) : nodes[cs[m]].visits < nodes[cs[k]].visits

\* A search has returned a child's answer while another child has a higher value.
C3_Witness ==
    /\ pc = "end" /\ call = "search" /\ iterations >= 1 /\ exc = NoExc
    /\ \E c, d \in Range(nodes[Root].children) :
           /\ result.val = nodes[c].answer
           /\ nodes[d].value > nodes[c].value

\* C4: monte_carlo_search_tool never propagates an exception: whatever is raised
\* below it, it returns the error string; otherwise it returns the search's answer.
C4_ToolNeverRaises ==
    entry = "monte_carlo_search_tool" =>
        /\ result.kind # "raised"
        /\ pc = "end" =>
               /\ result.kind = "returned"
               /\ exc # NoExc => result.val = ErrorString
               /\ exc = NoExc =>
                      \E c \in Range(nodes[Root].children) :
                          /\ result.val = nodes[c].answer
                          /\ \A d \in Range(nodes[Root].children) :
                                 nodes[d].visits <= nodes[c].visits

\* The tool has turned a rate-oracle failure of a later iteration into the string.
C4_Witness ==
    /\ entry = "monte_carlo_search_tool"
    /\ pc = "end"
    /\ exc[2] = "rate"
    /\ i >= 1
    /\ result = Returned(ErrorString)

\* The statistics of the arena are those of the snapshot; nodes made since have none.
StatsAsInSnap ==
    /\ Len(snap.nodes) <= Len(nodes)
    /\ \A n \in NodeIds :
           IF n <= Len(snap.nodes)
           THEN nodes[n].visits = snap.nodes[n].visits /\ nodes[n].value = snap.nodes[n].value
           ELSE nodes[n].visits = 0 /\ nodes[n].value = 0

ExpandFailed == pc = "end" /\ call = "search" /\ exc[2] \in {"critique", "improve"}

\* C5: a critique or improve failure during Expand leaves MCTS.search, and
\* MCTSAgent.search and mcts_search above it, as the exception it is; that
\* iteration changes no node's visits or value, and the loop runs no further: the
\* only steps after it are new calls by the caller.
C5_ExpandFailurePropagates ==
    /\ [](ExpandFailed =>
            /\ entry \in {"MCTS.search", "MCTSAgent.search", "mcts_search"} =>
                   result = [kind |-> "raised", val |-> <<exc[1], 0>>]
            /\ i < iterations
            /\ StatsAsInSnap)
    /\ [][ExpandFailed => (pc' \in {"start", "expand"} /\ ~fresh' /\ nodes' = nodes)]_vars

\* mcts_search has raised an improve failure of a later iteration.
C5_Witness ==
    /\ ExpandFailed
    /\ entry = "mcts_search"
    /\ exc[2] = "improve"
    /\ i >= 1
    /\ result.kind = "raised"

\* C6: every node with visits == 0 has value == 0.0, at every point of the run.
C6_UnvisitedHasNoValue ==
    \A n \in NodeIds : nodes[n].visits = 0 => nodes[n].value = 0

\* Between the two updates of a backpropagation step, at a child visited for the
\* first time, with a positive reward.
C6_Witness ==
    /\ pc = "bp_value"
    /\ reward > 0
    /\ nodes[cur].visits = 1
    /\ nodes[cur].value = 0
    /\ nodes[cur].parent # None

\* C7: no node ever has more than MAX_CHILDREN children; a node with MAX_CHILDREN
\* children is fully expanded, and no step, of a later iteration or of an expand
\* call on it, changes its children.
C7_FanOutBound ==
    /\ [](\A n \in NodeIds :
            /\ Len(nodes[n].children) <= MAX_CHILDREN
            /\ Len(nodes[n].children) = MAX_CHILDREN => is_fully_expanded(nodes, n))
    /\ [][\A n \in NodeIds :
            Len(nodes[n].children) = MAX_CHILDREN => nodes'[n].children = nodes[n].children]_vars

\* expand() has been called on a fully expanded node, and has returned one of
\* its children.
C7_Witness ==
    /\ call = "expand"
    /\ pc = "end"
    /\ result.kind = "returned"
    /\ \E n \in NodeIds : is_fully_expanded(nodes, n) /\ result.val = <<"node", nodes[n].children[1]>>

IsPrefix(a, b) == Len(a) <= Len(b) /\ \A k \in 1..Len(a) : a[k] = b[k]

\* C8: the structure is a tree in every state, also after an aborted expansion:
\* the root has no parent and is nobody's child; every other node has one parent,
\* made before it, and stands in that parent's children; whatever stands in a
\* node's children has that node as its parent and stands there once; children
\* only grow by appending, parents never change and no node is removed.
C8_TreeShape ==
    /\ [](/\ Len(nodes) >= 1
          /\ nodes[Root].parent = None
          /\ \A n \in NodeIds \ {Root} :
                 /\ nodes[n].parent \in 1..(n - 1)
                 /\ \E k \in 1..Len(nodes[nodes[n].parent].children) :
                        nodes[nodes[n].parent].children[k] = n
          /\ \A q \in NodeIds :
                 \A k \in 1..Len(nodes[q].children) :
                     /\ nodes[q].children[k] \in NodeIds \ {Root}
                     /\ nodes[nodes[q].children[k]].parent = q
                     /\ \A m \in 1..(k - 1) : nodes[q].children[m] # nodes[q].children[k])
    /\ [][/\ Len(nodes') >= Len(nodes)
          /\ \A n \in NodeIds :
                 /\ nodes'[n].parent = nodes[n].parent
                 /\ IsPrefix(nodes[n].children, nodes'[n].children)]_vars

\* An expansion below the root was aborted at its second child.
C8_Witness ==
    /\ pc = "end"
    /\ exc[2] \in {"critique", "improve"}
    /\ child # None
    /\ nodes[child].parent # Root
    /\ Len(nodes[nodes[child].parent].children) = 2

\* C9: for a node with visits > 0 and children, best_child returns the first
\* child, in child order, that has no visits, whenever there is one, whatever the
\* statistics of the others; a second call on the same statistics returns the
\* same node.
C9_BestChildPrefersUnvisited ==
    LET cs   == nodes[Root].children
        zero == {k \in 1..Len(cs) : nodes[cs[k]].visits = 0}
    IN  /\ (pc \in {"best_child_again", "best_child_done"} /\ zero # {}) =>
               \E k \in zero : cur = cs[k] /\ \A m \in zero : k <= m
        /\ pc = "best_child_done" => child = cur

\* The unvisited child came after a visited child of positive value.
C9_Witness ==
    /\ pc = "best_child_done"
    /\ Len(nodes[Root].children) = 3
    /\ nodes[2].visits > 0 /\ nodes[2].value > 0
    /\ nodes[3].visits = 0
    /\ nodes[4].visits > 0
    /\ cur = 3

\* The nodes from n up to the root of arena ns, n included.
RECURSIVE Chain(_, _)
Chain(ns, n) == IF n = None THEN {} ELSE {n} \cup Chain(ns, ns[n].parent)

\* The number of parent links from n to the root of arena ns.
RECURSIVE Depth(_, _)
Depth(ns, n) == IF ns[n].parent = None THEN 0 ELSE 1 + Depth(ns, ns[n].parent)

\* C10: backpropagate(node, reward) from a node N levels below the root adds 1 to
\* visits and reward to value at the N+1 nodes from that node to the root, and
\* changes nothing else of the arena.
C10_BackpropagateFrame ==
    (pc = "loop" /\ i > 0) =>
        LET before == snap.nodes
            path   == Chain(before, snap.node)
        IN  /\ Root \in path /\ snap.node \in path
            /\ Cardinality(path) = Depth(before, snap.node) + 1
            /\ Len(nodes) = Len(before)
            /\ \A n \in NodeIds :
                   /\ nodes[n].answer = before[n].answer
                   /\ nodes[n].parent = before[n].parent
                   /\ nodes[n].children = before[n].children
                   /\ nodes[n].visits = before[n].visits + (IF n \in path THEN 1 ELSE 0)
                   /\ nodes[n].value = before[n].value + (IF n \in path THEN reward ELSE 0)

\* A positive reward was backpropagated from a node two levels below the root.
C10_Witness ==
    /\ pc = "loop" /\ i > 0
    /\ reward > 0
    /\ Depth(snap.nodes, snap.node) = 2

(***************************************************************************)
(* C11 .. C20                                                              *)
(***************************************************************************)
\* C11: against an oracle that never fails and always answers "Rating: 80", a
\* search of three iterations ends, whatever random.choice picked, with a root
\* of exactly MAX_CHILDREN children, each visited at least once, and returns
\* the answer of one of them: an improved answer, not the seed, the most
\* visited child having at least one visit.
C11_ThreeIterations ==
    (pc = "end" /\ iterations = 3) =>
        /\ Len(nodes[Root].children) = MAX_CHILDREN
        /\ \A k \in 1..Len(nodes[Root].children) : nodes[nodes[Root].children[k]].visits >= 1
        /\ result.kind = "returned"
        /\ \E k \in 1..Len(nodes[Root].children) :
               result.val = nodes[nodes[Root].children[k]].answer
        /\ result.val[1] = "improved"
        /\ result.val \notin Range(DEFAULT_SEED_ANSWERS)
        /\ nodes[most_visited_child(nodes, Root)].visits >= 1

C11_Witness ==
    /\ pc = "end"
    /\ iterations = 3
    /\ result.kind = "returned"
    /\ nodes[Root].visits = 3
    /\ nodes[Root].value = 3 * 80
    /\ Len(nodes) = 1 + 3 * MAX_CHILDREN

\* C12: select starts at the root and, while the node in hand is fully expanded
\* and has a child, steps to the child that best_child picks with exploration
\* weight 1.41 (the first child of greatest weight); it stops at the first node
\* that is not fully expanded or has no children, so every node passed through
\* is fully expanded with at least one child; no step of select changes a node.
C12_SelectDescent ==
    /\ [](pc \in {"select", "selected"} =>
             /\ Root \in Chain(nodes, cur)
             /\ \A a \in Chain(nodes, cur) \ {cur} :
                    Len(nodes[a].children) >= MAX_CHILDREN /\ Len(nodes[a].children) >= 1
             /\ pc = "selected" =>
                    (Len(nodes[cur].children) < MAX_CHILDREN \/ Len(nodes[cur].children) = 0))
    /\ [][pc = "select" =>
             /\ nodes' = nodes
             /\ IF Len(nodes[cur].children) >= MAX_CHILDREN /\ Len(nodes[cur].children) >= 1
                THEN /\ pc' = "select"
                     /\ \E k \in 1..Len(nodes[cur].children) :
                            /\ cur' = nodes[cur].children[k]
                            /\ \A m \in 1..Len(nodes[cur].children) :
                                   /\ Weight(nodes, cur, nodes[cur].children[m], 141)
                                          <= Weight(nodes, cur, cur', 141)
                                   /\ m < k => Weight(nodes, cur, nodes[cur].children[m], 141)
                                                   < Weight(nodes, cur, cur', 141)
                ELSE pc' = "selected" /\ cur' = cur]_vars

\* select has gone down from the root and stopped at a node that has children
\* but still room for more.
C12_Witness ==
    /\ pc = "selected"
    /\ cur # Root
    /\ nodes[cur].children # <<>>
    /\ Len(nodes[cur].children) < MAX_CHILDREN

\* One step of expand, from the loop header, the critique call or the improve call.
C13_ExpandStep ==
    pc \in {"expand", "critique", "improve"} =>
          /\ \A n \in 1..Len(nodes) : n # child => nodes'[n].answer = nodes[n].answer
          /\ \A n \in 1..Len(nodes) :
                 /\ nodes'[n].visits = nodes[n].visits
                 /\ nodes'[n].value = nodes[n].value
                 /\ nodes'[n].parent = nodes[n].parent
          /\ (pc = "expand" /\ pc' = "critique") =>
                 /\ Len(nodes') = Len(nodes) + 1
                 /\ child' = Len(nodes')
                 /\ nodes'[child'].parent = cur
                 /\ nodes'[child'].answer = nodes[cur].answer
                 /\ nodes'[cur].children = Append(nodes[cur].children, child')
                 /\ prompt' = prompt
          /\ pc = "critique" =>
                 /\ nodes' = nodes
                 /\ nodes[child].parent = cur
                 /\ nodes[cur].children[Len(nodes[cur].children)] = child
                 /\ prompt'.kind = "critique"
                 /\ prompt'.draft = nodes[cur].answer
                 /\ pc' = "improve" => critique' # NoText
          /\ pc = "improve" =>
                 /\ Len(nodes') = Len(nodes)
                 /\ prompt.kind = "critique"
                 /\ prompt' = [kind |-> "improve", draft |-> nodes[cur].answer,
                               critique |-> critique]
                 /\ critique # NoText
                 /\ pc' = "expand" =>
                        /\ nodes'[child].answer \in ImproveTexts(child, nodes[cur].answer, critique)
                        /\ nodes'[child].answer # nodes[cur].answer
                        /\ j' = j + 1
          /\ (pc = "expand" /\ pc' \in {"simulate", "end"}) =>
                 LET c == Len(snap.nodes[cur].children)
                     created == (Len(snap.nodes) + 1)..Len(nodes)
                 IN  /\ nodes' = nodes
                     /\ c < MAX_CHILDREN =>
                            /\ Cardinality(created) = MAX_CHILDREN - c
                            /\ Len(nodes[cur].children) = MAX_CHILDREN
                            /\ \A k \in 1..c : nodes[cur].children[k] = snap.nodes[cur].children[k]
                            /\ \A k \in (c + 1)..MAX_CHILDREN :
                                   nodes[cur].children[k] = Len(snap.nodes) + (k - c)
                            /\ \A n \in created :
                                   /\ nodes[n].parent = cur
                                   /\ nodes[n].answer[1] = "improved"
                            /\ nodes[cur].answer = snap.nodes[cur].answer
                            /\ nodes[cur].visits = snap.nodes[cur].visits
                            /\ nodes[cur].value = snap.nodes[cur].value

\* C13: expand(node) on a node with c < MAX_CHILDREN children creates exactly
\* MAX_CHILDREN - c children, one per step; a new child has the expanded node
\* as parent and is appended to its children before an oracle is asked about
\* it; its critique is requested on the parent's current answer, then its
\* improvement with that critique, and the improve response as a whole becomes
\* its answer; expansion changes no answer, visits or value of the expanded
\* node (nor of any older node).
C13_Expansion == [][C13_ExpandStep]_vars

\* The expansion of a node that had one or two children has finished and one of
\* its children is about to be simulated.
C13_Witness ==
    /\ pc = "simulate"
    /\ snap.node = None
    /\ Len(snap.nodes[nodes[cur].parent].children) \in 1..(MAX_CHILDREN - 1)
    /\ Len(nodes[nodes[cur].parent].children) = MAX_CHILDREN
    /\ prompt.kind = "improve"

\* The children of node p in arena ns other than node n.
C14_Siblings(ns, n) == Range(ns[ns[n].parent].children) \ {n}

\* A step that changes the visits or the value of some node.
C14_StatsStep ==
    \A n \in 1..Len(nodes) :
        (nodes'[n].visits # nodes[n].visits \/ nodes'[n].value # nodes[n].value) =>
            /\ pc \in {"bp_visits", "bp_value"}
            /\ n = cur
            /\ n \in Chain(snap.nodes, snap.node)
            /\ n = snap.node => snap.nodes[n].visits = 0 /\ snap.nodes[n].value = 0
            /\ n # snap.node => n \in Chain(snap.nodes, snap.nodes[snap.node].parent)

\* C14: an iteration that expands a node simulates exactly one node, a child
\* of the node it expanded, and backpropagates from it once; at the end of the
\* iteration every other child of the expanded node has visits 0 and value 0;
\* a node made by an earlier, finished expansion is never the one simulated,
\* so its statistics change only when it lies on the selection path, above
\* the simulated node.
C14_OneSimulation ==
    /\ [](pc = "simulate" =>
             /\ snap.node = None
             /\ cur # Root
             /\ cur \in Range(nodes[nodes[cur].parent].children)
             /\ Len(snap.nodes[nodes[cur].parent].children) < MAX_CHILDREN
             /\ Len(nodes[nodes[cur].parent].children) = MAX_CHILDREN
             /\ \A n \in 2..Len(snap.nodes) :
                    Len(snap.nodes[snap.nodes[n].parent].children) = MAX_CHILDREN => n # cur)
    /\ [](pc = "loop" /\ i > 0 =>
             /\ snap.node \in 2..Len(nodes)
             /\ nodes[snap.node].visits = 1
             /\ nodes[Root].visits = snap.nodes[Root].visits + 1
             /\ \A s \in C14_Siblings(nodes, snap.node) :
                    nodes[s].visits = 0 /\ nodes[s].value = 0)
    /\ [][C14_StatsStep]_vars

\* An iteration has ended in which a node two levels below the root was
\* simulated with a reward: its siblings are unvisited and the root child on
\* the selection path above it has gained a visit.
C14_Witness ==
    /\ pc = "loop"
    /\ i > 0
    /\ snap.node # None
    /\ nodes[snap.node].parent # Root
    /\ nodes[snap.node].value > 0
    /\ nodes[nodes[snap.node].parent].visits = 1
    /\ snap.nodes[nodes[snap.node].parent].visits = 0

\* C15: in every state of a run in which no oracle call fails, whatever
\* random.choice picked and whatever the ratings were, no node has a child
\* with visits >= 2 while another of its children has visits 0.
C15_ColdStartFairness ==
    \A p \in 1..Len(nodes) :
        \A a \in 1..Len(nodes[p].children), b \in 1..Len(nodes[p].children) :
            ~(nodes[nodes[p].children[a]].visits >= 2 /\ nodes[nodes[p].children[b]].visits = 0)

\* A child has been visited a second time, after each of its siblings had its
\* first visit.
C15_Witness ==
    \E p \in 1..Len(nodes) :
        /\ Len(nodes[p].children) = MAX_CHILDREN
        /\ \E a \in 1..MAX_CHILDREN : nodes[nodes[p].children[a]].visits >= 2
        /\ \A b \in 1..MAX_CHILDREN : nodes[nodes[p].children[b]].visits >= 1

\* The order in which search() moves between its phases: select, expand (one
\* child after the other, critique before improve), simulate, backpropagate
\* (visits before value, node by node), then the loop header again.
C16_PhaseOrder ==
    /\ pc' # pc =>
           <<pc, pc'>> \in { <<"start", "loop">>, <<"loop", "select">>, <<"loop", "finish">>,
                             <<"select", "selected">>, <<"selected", "expand">>,
                             <<"expand", "critique">>, <<"critique", "improve">>,
                             <<"improve", "expand">>, <<"expand", "simulate">>,
                             <<"simulate", "bp_visits">>, <<"bp_visits", "bp_value">>,
                             <<"bp_value", "bp_visits">>, <<"bp_visits", "loop">>,
                             <<"finish", "end">> }
    /\ i' # i => (pc = "bp_visits" /\ pc' = "loop" /\ i' = i + 1)
    /\ (pc = "loop" /\ pc' = "finish") => i = iterations
    /\ (pc = "simulate" /\ pc' = "bp_visits") => nodes[Root].visits = i
    /\ (pc = "bp_visits" /\ pc' = "loop") => nodes[Root].visits = i + 1

\* C16: when every oracle call returns, a search with a budget of n >= 1
\* iterations terminates and returns a result; every select descent comes to
\* an end; the phases of an iteration run in order and to completion before the
\* next iteration starts; and exactly n backpropagations have reached the root
\* when the result is returned.
C16_Terminates ==
    /\ <>(pc = "end")
    /\ (pc = "select") ~> (pc = "selected")
    /\ [](pc = "end" /\ iterations >= 1 =>
             /\ result.kind = "returned"
             /\ i = iterations
             /\ started = iterations
             /\ nodes[Root].visits = iterations)
    /\ [][C16_PhaseOrder]_vars

\* A search with a budget of at least two iterations has returned, and one of
\* its select descents went below the root.
C16_Witness ==
    /\ pc = "end"
    /\ iterations >= 2
    /\ result.kind = "returned"
    /\ nodes[Root].visits = iterations
    /\ \E n \in 2..Len(nodes) : nodes[n].parent # Root /\ nodes[n].visits = 1

\* C17: a search() call in which no oracle call fails, on an engine that was
\* given a model, gives its caller a string, the answer of a child of the
\* root, for every iteration budget, a budget of 0 included.
C17_SearchYieldsString ==
    (pc = "end" /\ call = "search" /\ hasModel
        /\ exc[2] \notin {"critique", "improve", "rate"}) =>
        /\ result.kind = "returned"
        /\ \E k \in 1..Len(nodes[Root].children) :
               result.val = nodes[nodes[Root].children[k]].answer

\* C18: in a run on a newly built engine in which no oracle call fails, every
\* node on which select calls best_child (the node in hand while the loop
\* condition of select holds) has visits >= 1 and at least one child, so
\* ln(visits) is defined and there is a weight to take the maximum of.
C18_BestChildPrecondition ==
    (pc = "select" /\ Len(nodes[cur].children) >= MAX_CHILDREN /\ nodes[cur].children # <<>>) =>
        /\ nodes[cur].visits >= 1
        /\ Len(nodes[cur].children) >= 1
        /\ ~BestChildRaises(nodes, cur)

\* select is about to call best_child on a node below the root.
C18_Witness ==
    /\ pc = "select"
    /\ cur # Root
    /\ Len(nodes[cur].children) >= MAX_CHILDREN
    /\ nodes[cur].visits >= 1
    /\ \E k \in 1..Len(nodes[cur].children) : nodes[nodes[cur].children[k]].visits >= 1

\* One step of search() between select's return and the simulation.
C19_AfterSelectStep ==
    /\ pc = "selected" => (pc' = "expand" /\ todo' = MAX_CHILDREN)
    /\ pc' = "simulate" => (pc = "expand" /\ cur' > Len(snap.nodes))

\* C19: in a run in which no oracle call fails, select always returns a node
\* without children, so every iteration expands and the branch that simulates
\* the selected node itself is never taken; at every iteration boundary each
\* node has 0 or MAX_CHILDREN children, and after k iterations the tree has
\* 1 + MAX_CHILDREN * k nodes.
C19_AlwaysExpands ==
    /\ [](pc = "selected" => nodes[cur].children = <<>>)
    /\ [](pc = "loop" =>
             /\ \A n \in 1..Len(nodes) : Len(nodes[n].children) \in {0, MAX_CHILDREN}
             /\ Len(nodes) = 1 + MAX_CHILDREN * i)
    /\ [][C19_AfterSelectStep]_vars

\* Three iterations are over, the tree has ten nodes and some of them are
\* two levels below the root.
C19_Witness ==
    /\ pc = "loop"
    /\ i = 3
    /\ Len(nodes) = 1 + MAX_CHILDREN * 3
    /\ \E n \in 2..Len(nodes) : nodes[n].parent # Root

\* The visits, and the values, of the first k children of node p in arena ns, added up.
RECURSIVE C20_ChildVisits(_, _, _)
C20_ChildVisits(ns, p, k) ==
    IF k = 0 THEN 0 ELSE ns[ns[p].children[k]].visits + C20_ChildVisits(ns, p, k - 1)

RECURSIVE C20_ChildValue(_, _, _)
C20_ChildValue(ns, p, k) ==
    IF k = 0 THEN 0 ELSE ns[ns[p].children[k]].value + C20_ChildValue(ns, p, k - 1)

\* What node n has of its own: the visits, and the value, that did not come up
\* from its children.
C20_OwnVisits(ns, n) == ns[n].visits - C20_ChildVisits(ns, n, Len(ns[n].children))

C20_OwnValue(ns, n) == ns[n].value - C20_ChildValue(ns, n, Len(ns[n].children))

\* C20 as stated: at every iteration boundary of a run in which no oracle call
\* fails, root.visits is the number of completed iterations and the sum of its
\* children's visits; every non-root node with visits >= 1 has visits equal to
\* 1 + the sum of its children's visits; and a node's value is the sum of the
\* rewards simulated at it or below it (its children's values plus the reward
\* of its own simulation).
C20_VisitConservation ==
    pc = "loop" =>
        /\ nodes[Root].visits = i
        /\ C20_OwnVisits(nodes, Root) = 0
        /\ C20_OwnValue(nodes, Root) = 0
        /\ \A n \in 2..Len(nodes) :
               /\ nodes[n].visits >= 1 => C20_OwnVisits(nodes, n) = 1
               /\ C20_OwnValue(nodes, n) \in 0..RatingCap

\* C20, amended: at every iteration boundary of a run in which no oracle call
\* fails, root.visits is the number of completed iterations and the sum of its
\* children's visits, and the root's value is the sum of its children's values;
\* a non-root node's visits are the sum of its children's visits, plus 1 only
\* if the node was itself simulated, which is the case for exactly one child of
\* every expanded node (the one random.choice returned); a node entered only by
\* selection has visits equal to the sum of its children's visits. A node's
\* value is the sum of its children's values plus the reward of its own
\* simulation, if it had one. An iteration changes these own shares only at the
\* node it simulated: from nothing to one visit and the reward.
C20_VisitConservationAmended ==
    pc = "loop" =>
        /\ nodes[Root].visits = i
        /\ C20_OwnVisits(nodes, Root) = 0
        /\ C20_OwnValue(nodes, Root) = 0
        /\ \A n \in 2..Len(nodes) :
               /\ C20_OwnVisits(nodes, n) \in {0, 1}
               /\ C20_OwnValue(nodes, n) \in 0..RatingCap
               /\ C20_OwnVisits(nodes, n) = 0 => C20_OwnValue(nodes, n) = 0
        /\ \A p \in 1..Len(nodes) :
               nodes[p].children # <<>> =>
                   Cardinality({k \in 1..Len(nodes[p].children) :
                                   C20_OwnVisits(nodes, nodes[p].children[k]) = 1}) = 1
        /\ i > 0 =>
               /\ C20_OwnVisits(snap.nodes, snap.node) = 0
               /\ C20_OwnValue(snap.nodes, snap.node) = 0
               /\ C20_OwnVisits(nodes, snap.node) = 1
               /\ C20_OwnValue(nodes, snap.node) = reward
               /\ \A n \in 1..Len(nodes) :
                      n # snap.node =>
                          /\ C20_OwnVisits(nodes, n) = C20_OwnVisits(snap.nodes, n)
                          /\ C20_OwnValue(nodes, n) = C20_OwnValue(snap.nodes, n)

\* At an iteration boundary one node has a visit that came up from a child and
\* none of its own, and another was simulated once and later expanded.
C20_Witness ==
    /\ pc = "loop"
    /\ \E n \in 2..Len(nodes) :
           /\ nodes[n].visits = 1
           /\ C20_OwnVisits(nodes, n) = 0
           /\ nodes[n].value > 0
    /\ \E m \in 2..Len(nodes) :
           /\ nodes[m].visits = 2
           /\ C20_OwnVisits(nodes, m) = 1

====
